---- MODULE Spec2Model ----
(***************************************************************************)
(* Model of the elliptic-curve engine (class ECC), its modular arithmetic  *)
(* and the S-PDH-EC key exchange built on it (class SPDHEC).               *)
(*                                                                         *)
(* Python integers are unbounded, so no width is modelled.  A Python      *)
(* exception is the record [exc |-> name]; a point is [x |-> _, y |-> _]. *)
(***************************************************************************)
EXTENDS Integers, Sequences, FiniteSets, TLC

(***************************************************************************)
(* Bounds of the exploration.                                              *)
(***************************************************************************)
\* moduli offered to the engine: the first NumPrimes entries of PrimeTable
NumPrimes == 1
\* curve coefficients a, b are drawn from 0..MaxCoef
MaxCoef == 2
\* group order handed to setECParameters is drawn from 1..MaxOrderArg
MaxOrderArg == 1
\* scalars handed to ECDoubleAndAdd are drawn from 0..MaxScalar
MaxScalar == 8
\* isPrime is applied to 0..MaxSmallN and to LargeThreshold+1..LargeThreshold+MaxLargeN
MaxSmallN == 60
MaxLargeN == 60
\* private keys given on the command line are drawn from 0..MaxKeyArg
MaxKeyArg == 7
\* "Elliptic Curves.txt" holds at most MaxLines lines
MaxLines == 1
\* MultiplicativeInverse is applied to moduli 2..MaxInverseN
MaxInverseN == 12
\* ModularSquareRoot is applied to the primes p = 3 (mod 4) up to MaxSqrtP
MaxSqrtP == 23
\* ECOrder and the constructor are applied, as pure functions, to the first
\* NumPurePrimes entries of PrimeTable and to coefficients of absolute value
\* up to MaxPureCoef
NumPurePrimes == 3
MaxPureCoef == 6
\* scalars handed to ECDoubleAndAdd on the engines built over those primes
\* are drawn from 0..MaxPureScalar
MaxPureScalar == 15
\* fastExponentation is applied to bases of absolute value up to MaxPowBase,
\* exponents 0..MaxPowExp and moduli 2..MaxPowMod
MaxPowBase == 5
MaxPowExp == 9
MaxPowMod == 7

PrimeTable == <<3, 5, 7, 11, 13>>
Moduli == {PrimeTable[i] : i \in 1..NumPrimes}

(***************************************************************************)
(* Python primitives.                                                      *)
(***************************************************************************)
Raise(name) == [exc |-> name]
IsExc(r) == "exc" \in DOMAIN r

\* Python's a % n for a non-zero n: the result takes the sign of n
PyMod(a, n) == IF n > 0 THEN a % n ELSE 0 - ((0 - a) % (0 - n))

\* bin(n)[2:] for n >= 0, most significant bit first, as a sequence of 0/1
RECURSIVE bin(_)
bin(n) == IF n < 2 THEN <<n>> ELSE Append(bin(n \div 2), n % 2)

\* int(n / d) for n >= 0, d > 0: true division followed by truncation
IntOfQuotient(n, d) == n \div d

(***************************************************************************)
(* ModularAritmetic                                                        *)
(***************************************************************************)
Mod(a, p) ==
    LET mod == PyMod(a, p)
    IN  IF mod >= 0 THEN mod ELSE mod + p

RECURSIVE fastExponentationLoop(_, _, _, _, _)
fastExponentationLoop(a, x, i, result, p) ==
    IF i < 1 THEN result
    ELSE fastExponentationLoop(PyMod(a * a, p), x, i - 1,
                               IF x[i] = 1 THEN PyMod(result * a, p) ELSE result, p)

\* fastExponentation whose loop leaves out the lowest bit of the exponent
fastExponentationSkipLowBit(a, b, p) ==
    LET x == bin(b)
    IN  fastExponentationLoop(PyMod(a * a, p), x, Len(x) - 1, 1, p)

fastExponentation(a, b, p) ==
    LET x == bin(b)
    IN  fastExponentationLoop(a, x, Len(x), 1, p)

RECURSIVE GCDLoop(_, _, _, _, _, _)
GCDLoop(r1, r2, s1, s2, t1, t2) ==
    IF r2 > 0
    THEN LET q == r1 \div r2
         IN  GCDLoop(r2, r1 - q * r2, s2, s1 - q * s2, t2, t1 - q * t2)
    ELSE [d |-> r1, S |-> s1, T |-> t1]

ExtendedEuclideanAlgorithm(a, b) == GCDLoop(a, b, 1, 0, 0, 1)

\* MultiplicativeInverse reading the coefficient of n instead of that of a
MultiplicativeInverseFromT(a, n) ==
    LET gcd == ExtendedEuclideanAlgorithm(a, n)
    IN  IF gcd.d = 1 THEN Mod(gcd.T, n) ELSE 0 - 1

MultiplicativeInverse(a, n) ==
    LET gcd == ExtendedEuclideanAlgorithm(a, n)
    IN  IF gcd.d = 1 THEN Mod(gcd.S, n) ELSE 0 - 1

isQuadraticResidue(x, p) == fastExponentation(x, IntOfQuotient(p - 1, 2), p) = 1

\* ModularSquareRoot with the exponent (p+1)/2
ModularSquareRootHalf(a, p) == fastExponentation(a, IntOfQuotient(p + 1, 2), p)

ModularSquareRoot(a, p) == fastExponentation(a, IntOfQuotient(p + 1, 4), p)

(***************************************************************************)
(* ECPoint                                                                 *)
(***************************************************************************)
ECPoint(x, y) == [x |-> x, y |-> y]
\* ECPoint() and ECPoint(-1, -1): the point-at-infinity sentinel
Infinity == ECPoint(0 - 1, 0 - 1)

(***************************************************************************)
(* ECC: the curve engine.  An engine object is the record                  *)
(*   [A, B, p, ecOrder, ecStatus, attrs]                                   *)
(* where attrs is the set of attributes the object actually has: a         *)
(* constructor that returns early leaves A, B, p (and ecOrder) unset, and  *)
(* reading an unset attribute raises AttributeError.  The value stored in  *)
(* the record for an unset attribute is a placeholder that is never read.  *)
(***************************************************************************)
AllAttrs == {"A", "B", "p", "ecOrder", "ecStatus"}
Unset == 0

isECNonSingular(a, b, p) ==
    LET result == PyMod(PyMod(4 * fastExponentation(a, 3, p), p)
                        + PyMod(27 * fastExponentation(b, 2, p), p), p)
    IN  result # 0

\* w = x^3 + a*x + b mod p, as computed in ECOrder and generateRandomECPoint
CurveRHS(a, b, p, x) ==
    PyMod(fastExponentation(x, 3, p) + PyMod(a * x, p) + b, p)

RECURSIVE ECOrderLoop(_, _, _, _, _)
ECOrderLoop(a, b, p, x, order) ==
    IF x < p
    THEN LET w == CurveRHS(a, b, p, x)
         IN  IF w = 0 THEN ECOrderLoop(a, b, p, x + 1, order)
             ELSE IF isQuadraticResidue(w, p)
                  THEN ECOrderLoop(a, b, p, x + 1, order + 1)
                  ELSE ECOrderLoop(a, b, p, x + 1, order - 1)
    ELSE order

\* ECOrder that starts its count at p
ECOrderFromP(a, b, p) == ECOrderLoop(a, b, p, 0, p)

ECOrder(a, b, p) == ECOrderLoop(a, b, p, 0, p + 1)

\* program constants of isPrime
LargeThreshold == 100000
SmallPrimes == {2, 3, 5, 7, 11, 13, 17, 19, 23, 29, 31, 37, 41, 43, 47, 53,
                59, 61, 67, 71, 73, 79, 83, 89, 97}

\* while d <= bound: if n % d == 0: return False; d += 2
\* (d <= sqrt(n) is d*d <= n for the integers in range).  The loop visits
\* e = d, d + 2, d + 4, ... while e*e <= n and returns False at the first e
\* that divides n; every such e is at most n \div d.
isPrimeLargeLoop(n, d) ==
    \A k \in 0..((n \div d - d) \div 2) :
        LET e == d + 2 * k
        IN  e * e <= n => n % e # 0

RECURSIVE isPrimeSmallLoop(_, _)
isPrimeSmallLoop(n, d) ==
    IF d <= n
    THEN IF n % d = 0 THEN FALSE ELSE isPrimeSmallLoop(n, d + 2)
    ELSE TRUE

isPrime(n) ==
    IF n > LargeThreshold
    THEN IF \E prime \in SmallPrimes : n % prime = 0
         THEN FALSE
         ELSE isPrimeLargeLoop(n, 101)
    ELSE IF n \in {2, 3, 5, 7} THEN TRUE
         ELSE IF n % 2 = 0 \/ n % 3 = 0 THEN FALSE
              ELSE isPrimeSmallLoop(n, 3)

\* ECC(): any parameter missing
ECCDefault ==
    [A |-> 0 - 1, B |-> 0 - 1, p |-> 0 - 1, ecOrder |-> 0 - 1,
     ecStatus |-> FALSE, attrs |-> AllAttrs]

\* ECCInit without the test of the order: a composite order is accepted
ECCInitNoOrderCheck(a, b, safePrime) ==
    IF ~isECNonSingular(a, b, safePrime)
    THEN [A |-> Unset, B |-> Unset, p |-> Unset, ecOrder |-> Unset,
          ecStatus |-> FALSE, attrs |-> {"ecStatus"}]
    ELSE [A |-> a, B |-> b, p |-> safePrime, ecOrder |-> ECOrder(a, b, safePrime),
          ecStatus |-> TRUE, attrs |-> AllAttrs]

\* ECC(a, b, safePrime)
ECCInit(a, b, safePrime) ==
    IF ~isECNonSingular(a, b, safePrime)
    THEN [A |-> Unset, B |-> Unset, p |-> Unset, ecOrder |-> Unset,
          ecStatus |-> FALSE, attrs |-> {"ecStatus"}]
    ELSE LET order == ECOrder(a, b, safePrime)
         IN  IF ~isPrime(order)
             THEN [A |-> Unset, B |-> Unset, p |-> Unset, ecOrder |-> order,
                   ecStatus |-> FALSE, attrs |-> {"ecStatus", "ecOrder"}]
             ELSE [A |-> a, B |-> b, p |-> safePrime, ecOrder |-> order,
                   ecStatus |-> TRUE, attrs |-> AllAttrs]

\* which return of ECC(a, b, safePrime) built the object: the one after the
\* singularity test, the one after the order test, or the end of the constructor
ECCInitOutcome(self) ==
    IF self.ecStatus THEN "Ready"
    ELSE IF "ecOrder" \in self.attrs THEN "CompositeOrder"
    ELSE "SingularCurve"

setECParameters(self, a, b, safePrime, primeOrder) ==
    [A |-> a, B |-> b, p |-> safePrime, ecOrder |-> primeOrder,
     ecStatus |-> TRUE, attrs |-> AllAttrs]

isEqual(P1, P2) == P1.x = P2.x /\ P1.y = P2.y

\* isAdditiveInverse comparing y with -y instead of p - y
isAdditiveInverseNoModulus(self, P1, P2) == P1.x = P2.x /\ P1.y = 0 - P2.y

isAdditiveInverse(self, P1, P2) == P1.x = P2.x /\ P1.y = self.p - P2.y

\* TangentSlope without the coefficient A in the numerator
TangentSlopeNoA(self, P) ==
    LET inv == PyMod(MultiplicativeInverse(PyMod(2 * P.y, self.p), self.p), self.p)
    IN  PyMod(PyMod(3 * fastExponentation(P.x, 2, self.p), self.p) * inv, self.p)

\* slope of the tangent at P, shared by ECPointAddition and ECPointDoubling
TangentSlope(self, P) ==
    LET inv == PyMod(MultiplicativeInverse(PyMod(2 * P.y, self.p), self.p), self.p)
    IN  PyMod(PyMod(PyMod(3 * fastExponentation(P.x, 2, self.p), self.p)
                    + self.A, self.p) * inv, self.p)

\* ChordSlope with the y-difference taken the other way round
ChordSlopeSwapped(self, P1, P2) ==
    LET inv == MultiplicativeInverse(Mod(P2.x - P1.x, self.p), self.p)
    IN  PyMod(Mod(P1.y - P2.y, self.p) * inv, self.p)

ChordSlope(self, P1, P2) ==
    LET inv == MultiplicativeInverse(Mod(P2.x - P1.x, self.p), self.p)
    IN  PyMod(Mod(P2.y - P1.y, self.p) * inv, self.p)

\* what MultiplicativeInverse returned on the path ECPointAddition takes
\* (before the reduction of the tangent branch); None when no inverse is taken
ECPointAdditionInverse(self, P1, P2) ==
    IF isAdditiveInverse(self, P1, P2) THEN <<>>
    ELSE IF isEqual(P1, P2)
    THEN IF P1.y = 0 THEN <<>>
         ELSE <<MultiplicativeInverse(PyMod(2 * P1.y, self.p), self.p)>>
    ELSE <<MultiplicativeInverse(Mod(P2.x - P1.x, self.p), self.p)>>

\* what MultiplicativeInverse returned inside ECPointDoubling; None when the
\* method returned before
ECPointDoublingInverse(self, P) ==
    IF P.y = 0 THEN <<>>
    ELSE <<MultiplicativeInverse(PyMod(2 * P.y, self.p), self.p)>>

\* ECPointAddition without the additive-inverse case
ECPointAdditionNoInverseCase(self, P1, P2) ==
    IF "p" \notin self.attrs THEN Raise("AttributeError")
    ELSE IF isEqual(P1, P2) /\ P1.y = 0 THEN Infinity
    ELSE LET m == IF isEqual(P1, P2) THEN TangentSlope(self, P1)
                  ELSE ChordSlope(self, P1, P2)
             x3 == Mod(fastExponentation(m, 2, self.p) - P1.x - P2.x, self.p)
             y3 == Mod(PyMod(m * Mod(P1.x - x3, self.p), self.p) - P1.y, self.p)
         IN  ECPoint(x3, y3)

ECPointAddition(self, P1, P2) ==
    IF "p" \notin self.attrs THEN Raise("AttributeError")
    ELSE IF isAdditiveInverse(self, P1, P2) THEN Infinity
    ELSE IF isEqual(P1, P2) /\ P1.y = 0 THEN Infinity
    ELSE LET m == IF isEqual(P1, P2) THEN TangentSlope(self, P1)
                  ELSE ChordSlope(self, P1, P2)
             x3 == Mod(fastExponentation(m, 2, self.p) - P1.x - P2.x, self.p)
             y3 == Mod(PyMod(m * Mod(P1.x - x3, self.p), self.p) - P1.y, self.p)
         IN  ECPoint(x3, y3)

\* ECPointDoubling subtracting x once instead of twice
ECPointDoublingSingleX(self, P) ==
    IF P.y = 0 THEN Infinity
    ELSE IF "p" \notin self.attrs THEN Raise("AttributeError")
    ELSE LET m == TangentSlope(self, P)
             x3 == Mod(fastExponentation(m, 2, self.p) - PyMod(P.x, self.p), self.p)
             y3 == Mod(PyMod(m * Mod(P.x - x3, self.p), self.p) - P.y, self.p)
         IN  ECPoint(x3, y3)

ECPointDoubling(self, P) ==
    IF P.y = 0 THEN Infinity
    ELSE IF "p" \notin self.attrs THEN Raise("AttributeError")
    ELSE LET m == TangentSlope(self, P)
             x3 == Mod(fastExponentation(m, 2, self.p) - PyMod(2 * P.x, self.p), self.p)
             y3 == Mod(PyMod(m * Mod(P.x - x3, self.p), self.p) - P.y, self.p)
         IN  ECPoint(x3, y3)

RECURSIVE ECDoubleAndAddLoop(_, _, _, _, _)
ECDoubleAndAddLoop(self, P, x, i, Q) ==
    IF i > Len(x) THEN Q
    ELSE LET D == ECPointDoubling(self, Q)
         IN  IF IsExc(D) THEN D
             ELSE IF x[i] = 1
                  THEN LET S == ECPointAddition(self, D, P)
                       IN  IF IsExc(S) THEN S
                           ELSE ECDoubleAndAddLoop(self, P, x, i + 1, S)
                  ELSE ECDoubleAndAddLoop(self, P, x, i + 1, D)

\* ECDoubleAndAdd whose loop also handles the leading bit
ECDoubleAndAddFromFirstBit(self, P, n) ==
    ECDoubleAndAddLoop(self, P, bin(n), 1, ECPoint(P.x, P.y))

ECDoubleAndAdd(self, P, n) ==
    ECDoubleAndAddLoop(self, P, bin(n), 2, ECPoint(P.x, P.y))

\* every value a call of generateRandomECPoint can return; empty when the
\* retry loop can never leave
generateRandomECPoint(self) ==
    IF "p" \notin self.attrs THEN {Raise("AttributeError")}
    ELSE IF self.p - 1 < 0 THEN {Raise("ValueError")}
    ELSE LET w(x) == CurveRHS(self.A, self.B, self.p, x)
             xs == 0..(self.p - 1)
         IN  {ECPoint(x, 0) : x \in {z \in xs : w(z) = 0}}
             \cup UNION {LET sqrt == ModularSquareRoot(w(x), self.p)
                         IN  {ECPoint(x, sqrt), ECPoint(x, (0 - 1) * sqrt + self.p)}
                         : x \in {z \in xs : w(z) # 0 /\ isQuadraticResidue(w(z), self.p)}}

ECOrderOfElement(self, P) == self.ecOrder

(***************************************************************************)
(* Arithmetic facts the properties are stated against.  They are defined   *)
(* from first principles, not through the operators above.                 *)
(***************************************************************************)
IsPrimeNumber(n) == n >= 2 /\ \A d \in 2..(n - 1) : n % d # 0
IsComposite(n) == n >= 2 /\ ~IsPrimeNumber(n)

Discriminant(a, b, p) == (4 * a * a * a + 27 * b * b) % p

OnCurve(a, b, p, P) ==
    /\ P.x \in 0..(p - 1)
    /\ P.y \in 0..(p - 1)
    /\ (P.y * P.y) % p = (P.x * P.x * P.x + a * P.x + b) % p

CurvePoints(a, b, p) ==
    {P \in {ECPoint(x, y) : x \in 0..(p - 1), y \in 0..(p - 1)} : OnCurve(a, b, p, P)}

\* number of points of the curve, the point at infinity included
PointCount(a, b, p) == Cardinality(CurvePoints(a, b, p)) + 1

\* the engine holds all its attributes and a modulus one can compute with
HasCurve(self) == self.attrs = AllAttrs /\ self.p > 1

\* the stored parameters describe a non-singular curve of prime order over a prime field
ValidatedCurve(self) ==
    /\ HasCurve(self)
    /\ IsPrimeNumber(self.p)
    /\ Discriminant(self.A, self.B, self.p) # 0
    /\ IsPrimeNumber(PointCount(self.A, self.B, self.p))

AffineOnCurve(self, P) == HasCurve(self) /\ OnCurve(self.A, self.B, self.p, P)

\* -P as the caller forms it: same x, y' = p - y
Negate(self, P) == ECPoint(P.x, self.p - P.y)

\* the group law of the curve y^2 = x^3 + A*x + B over the prime field of p
\* elements: Infinity is the neutral element, the sum of a point and its
\* mirror image is Infinity, any other sum is read off the chord or tangent
InverseMod(a, p) == CHOOSE r \in 0..(p - 1) : (a * r) % p = 1

GroupSum(A, p, P, Q) ==
    IF P = Infinity THEN Q
    ELSE IF Q = Infinity THEN P
    ELSE IF P.x = Q.x /\ (P.y + Q.y) % p = 0 THEN Infinity
    ELSE LET m == IF P = Q
                  THEN ((3 * P.x * P.x + A) * InverseMod((2 * P.y) % p, p)) % p
                  ELSE ((Q.y - P.y) * InverseMod((Q.x - P.x) % p, p)) % p
             x3 == (m * m - P.x - Q.x) % p
         IN  ECPoint(x3, (m * (P.x - x3) - P.y) % p)

\* P added to itself n times, n >= 1
RECURSIVE RepeatedSum(_, _, _, _)
RepeatedSum(A, p, P, n) ==
    IF n = 1 THEN P ELSE GroupSum(A, p, RepeatedSum(A, p, P, n - 1), P)

(***************************************************************************)
(* State.                                                                  *)
(*   ec   : the ECC object                                                 *)
(*   call : the last call made on it: [op, args, state, ret]               *)
(*   dh   : the SPDHEC object built around ec (NoDH when there is none)    *)
(*   cipher : the cipher object of a session of the cipher classes         *)
(*            (NoCipher when there is none)                                *)
(***************************************************************************)
VARIABLES ec, call, dh, cipher

vars == <<ec, call, dh, cipher>>

NoDH == [present |-> FALSE]

NoCipher == [class |-> "none"]

Returned(op, args, ret) == [op |-> op, args |-> args, state |-> "returned", ret |-> ret]

\* points a caller hands to the group law: the points of the stored curve, the
\* point at infinity and their negations; a few fixed points when the engine
\* stores no curve
PointArgs(self) ==
    IF HasCurve(self)
    THEN LET G == CurvePoints(self.A, self.B, self.p) \cup {Infinity}
         IN  G \cup {Negate(self, P) : P \in G}
    ELSE {Infinity, ECPoint(0, 0), ECPoint(1, 2)}

\* the session starts with ec = ECC(), as SPDHEC.__init__ creates it
Init ==
    /\ ec = ECCDefault
    /\ call = Returned("ECC", <<>>, "Default")
    /\ dh = NoDH
    /\ cipher = NoCipher

\* ec = ECC(): a new engine object replaces the old one
NewECC ==
    /\ ec' = ECCDefault
    /\ call' = Returned("ECC", <<>>, "Default")
    /\ UNCHANGED <<dh, cipher>>

\* ec = ECC(a, b, safePrime)
NewECCParams ==
    \E a \in 0..MaxCoef, b \in 0..MaxCoef, safePrime \in Moduli :
        \E self \in {ECCInit(a, b, safePrime)} :
            /\ ec' = self
            /\ call' = Returned("ECC", <<a, b, safePrime>>, ECCInitOutcome(self))
            /\ UNCHANGED <<dh, cipher>>

\* ec.setECParameters(a, b, safePrime, primeOrder)
SetECParameters ==
    \E a \in 0..MaxCoef, b \in 0..MaxCoef, safePrime \in Moduli, primeOrder \in 1..MaxOrderArg :
        /\ ec' = setECParameters(ec, a, b, safePrime, primeOrder)
        /\ call' = Returned("setECParameters", <<a, b, safePrime, primeOrder>>, "None")
        /\ UNCHANGED <<dh, cipher>>

\* program constant of generateRandomEC
MAXVAL == 9000000
RandomCoefs == 1..(IF MaxCoef < MAXVAL THEN MaxCoef ELSE MAXVAL)

\* ec.generateRandomEC() when ecc_safe_primes.txt cannot be opened
GenerateRandomECNoFile ==
    /\ call' = Returned("generateRandomEC", <<"IOError">>, "None")
    /\ UNCHANGED <<ec, dh, cipher>>

\* ec.generateRandomEC() when the first line of the file holds no number
GenerateRandomECEmptyFile ==
    /\ call' = Returned("generateRandomEC", <<"empty">>, "None")
    /\ UNCHANGED <<ec, dh, cipher>>

\* ec.generateRandomEC() with a readable file: the loop draws p, a, b until a
\* draw passes both tests, and stores that draw
GenerateRandomEC ==
    \E p \in Moduli, a \in RandomCoefs, b \in RandomCoefs :
        /\ isECNonSingular(a, b, p)
        /\ \E order \in {ECOrder(a, b, p)} :
              /\ isPrime(order)
              /\ ec' = [A |-> a, B |-> b, p |-> p, ecOrder |-> order,
                        ecStatus |-> TRUE, attrs |-> AllAttrs]
        /\ call' = Returned("generateRandomEC", <<"primes">>, "None")
        /\ UNCHANGED <<dh, cipher>>

CallECPointAddition ==
    \E P1 \in PointArgs(ec), P2 \in PointArgs(ec) :
        /\ call' = Returned("ECPointAddition", <<P1, P2>>, ECPointAddition(ec, P1, P2))
        /\ UNCHANGED <<ec, dh, cipher>>

CallECPointDoubling ==
    \E P \in PointArgs(ec) :
        /\ call' = Returned("ECPointDoubling", <<P>>, ECPointDoubling(ec, P))
        /\ UNCHANGED <<ec, dh, cipher>>

CallECDoubleAndAdd ==
    \E P \in PointArgs(ec), n \in 0..MaxScalar :
        /\ call' = Returned("ECDoubleAndAdd", <<P, n>>, ECDoubleAndAdd(ec, P, n))
        /\ UNCHANGED <<ec, dh, cipher>>

CallGenerateRandomECPoint ==
    \E r \in generateRandomECPoint(ec) :
        /\ call' = Returned("generateRandomECPoint", <<>>, r)
        /\ UNCHANGED <<ec, dh, cipher>>

Next ==
    \/ NewECC
    \/ NewECCParams
    \/ SetECParameters
    \/ GenerateRandomECNoFile
    \/ GenerateRandomECEmptyFile
    \/ GenerateRandomEC
    \/ CallECPointAddition
    \/ CallECPointDoubling
    \/ CallECDoubleAndAdd
    \/ CallGenerateRandomECPoint

Spec == Init /\ [][Next]_vars

(***************************************************************************)
(* SPDHEC: the key exchange.  The object is the record dh; its engine      *)
(* self.ec is the variable ec.  An optional command-line value is <<>>     *)
(* (None) or <<v>>.                                                        *)
(***************************************************************************)
None == <<>>
Some(v) == <<v>>
NonePoint == [none |-> TRUE]

\* lines of "Elliptic Curves.txt" offered to the exchange: A B p order, the
\* order being the number of points of the curve
CurveTable ==
    {<<a, b, p, PointCount(a, b, p)>> : a \in 0..MaxCoef, b \in 0..MaxCoef, p \in Moduli}

KeyArgs == {None} \cup {Some(k) : k \in 0..MaxKeyArg}

\* getPrivateKey returning its first draw, the value 0 included
getPrivateKeyFirstDraw(self) ==
    LET MAXVAL_ == self.ecOrder
    IN  0..(MAXVAL_ - 1)

\* every value getPrivateKey can return: randint(0, MAXVAL - 1) with
\* MAXVAL = ec.ecOrder, redrawn while it is 0; empty when only 0 can be drawn
getPrivateKey(self) ==
    LET MAXVAL_ == self.ecOrder
    IN  {randVal \in 0..(MAXVAL_ - 1) : randVal # 0}

getPublicKey(self, generator, privateKey) == ECDoubleAndAdd(self, generator, privateKey)

\* program constant of SPDHEC.__init__
Total_Elliptic_Curves == 15

\* "Elliptic Curves.txt" as the constructor finds it: unreadable, or a list of
\* up to MaxLines lines, each line the fields that split() yields.  The lines
\* of one file are a table line or truncations of it.
TruncatedLines(entry) == {SubSeq(entry, 1, k) : k \in 0..4}

CurveFiles ==
    {[readable |-> FALSE, lines |-> <<>>]}
    \cup {[readable |-> TRUE, lines |-> ls] :
             ls \in UNION {[1..n -> TruncatedLines(entry)] :
                              entry \in CurveTable, n \in 0..MaxLines}}

\* values of --curveIndex
CurveIndexArgs ==
    {None} \cup {Some(i) : i \in {0 - Total_Elliptic_Curves - 1, 0 - Total_Elliptic_Curves,
                                  0 - 1, 0, 1,
                                  Total_Elliptic_Curves - 1, Total_Elliptic_Curves}}

\* list[i] of Python: negative indices count from the end, and an index
\* outside [-len, len) raises IndexError
PyIndexInRange(list, i) == i < Len(list) /\ i >= 0 - Len(list)
PyIndex(list, i) == IF i >= 0 THEN list[i + 1] ELSE list[Len(list) + i + 1]

\* all_elliptic_curves after getECFromFile: Total_Elliptic_Curves empty lists,
\* the first ones replaced by the lines read; an IOError is swallowed
getECFromFile(file) ==
    [i \in 1..Total_Elliptic_Curves |->
        IF file.readable /\ i <= Len(file.lines) THEN file.lines[i] ELSE <<>>]

\* getRandomEC that falls back to the initial values of the object when the
\* selected entry is missing or short
getRandomECWithDefaults(all_elliptic_curves, pos) ==
    IF ~PyIndexInRange(all_elliptic_curves, pos) THEN Raise("IndexError")
    ELSE
    LET line == PyIndex(all_elliptic_curves, pos)
    IN  IF Len(line) < 4
        THEN [A |-> 0 - 1, B |-> 0 - 1, p |-> 0 - 1, ecOrder |-> 0 - 1]
        ELSE [A |-> line[1], B |-> line[2], p |-> line[3], ecOrder |-> line[4]]

\* getRandomEC for the position pos it selected: the four values it stores,
\* or the IndexError of the first field it cannot read
getRandomEC(all_elliptic_curves, pos) ==
    IF ~PyIndexInRange(all_elliptic_curves, pos) THEN Raise("IndexError")
    ELSE
    LET line == PyIndex(all_elliptic_curves, pos)
    IN  IF Len(line) < 4 THEN Raise("IndexError")
        ELSE [A |-> line[1], B |-> line[2], p |-> line[3], ecOrder |-> line[4]]

\* positions getRandomEC can select
CurvePositions(curveIndex) ==
    IF curveIndex # None THEN {curveIndex[1]} ELSE 0..(Total_Elliptic_Curves - 1)

\* what getECFromFile and getRandomEC make of a file and command line
LoadOutcomes ==
    {[file |-> file, pos |-> pos, sel |-> getRandomEC(getECFromFile(file), pos)] :
        file \in CurveFiles,
        pos \in UNION {CurvePositions(curveIndex) : curveIndex \in CurveIndexArgs}}

\* SPDHEC(args) raising.  A constructor that raises leaves no SPDHEC object:
\* dh is NoDH, ec is the engine the constructor had created, and call records
\* the file, the selected position and the exception (the IndexError of
\* getRandomEC, or the exception of generateRandomECPoint).
SPDHECFailed ==
    \/ \E load \in LoadOutcomes :
           /\ IsExc(load.sel)
           /\ ec = ECCDefault
           /\ call = Returned("SPDHEC", <<load.file, load.pos>>, load.sel)
           /\ dh = NoDH
           /\ cipher = NoCipher
    \/ \E load \in LoadOutcomes :
           /\ ~IsExc(load.sel)
           /\ LET sel == load.sel
                  e == setECParameters(ECCDefault, sel.A, sel.B, sel.p, sel.ecOrder)
              IN  \E g \in generateRandomECPoint(e) :
                      /\ IsExc(g)
                      /\ ec = e
                      /\ call = Returned("SPDHEC", <<load.file, load.pos>>, g)
                      /\ dh = NoDH
                      /\ cipher = NoCipher

\* SPDHEC(args) returning: the selected line is stored, handed to
\* ec.setECParameters, and G is sampled with ec.generateRandomECPoint
SPDHECConstructed ==
    \E sel \in {load.sel : load \in {l \in LoadOutcomes : ~IsExc(l.sel)}} :
        LET e == setECParameters(ECCDefault, sel.A, sel.B, sel.p, sel.ecOrder)
        IN  \E g \in generateRandomECPoint(e), AliceKey \in KeyArgs, BobKey \in KeyArgs :
                /\ ~IsExc(g)
                /\ ec = e
                /\ call = Returned("SPDHEC", <<>>, "None")
                /\ dh = [present |-> TRUE,
                         A |-> sel.A, B |-> sel.B, p |-> sel.p, ecOrder |-> sel.ecOrder,
                         args |-> [AliceKey |-> AliceKey, BobKey |-> BobKey],
                         G |-> g,
                         privateKeyAlice |-> 0 - 1, privateKeyBob |-> 0 - 1,
                         publicKeyAlice |-> NonePoint, publicKeyBob |-> NonePoint,
                         key |-> NonePoint, K_Alice |-> NonePoint, K_Bob |-> NonePoint,
                         SPDHEC_Key |-> 0 - 1]
                /\ cipher = NoCipher

\* the exchange starts from a constructed SPDHEC object
InitDH == SPDHECConstructed

\* dh.getPDHECSecretKey(); K_Alice and K_Bob are the two key points it prints
GetPDHECSecretKey ==
    /\ dh.present
    /\ \E kA \in (IF dh.args.AliceKey # None THEN {dh.args.AliceKey[1]} ELSE getPrivateKey(ec)),
          kB \in (IF dh.args.BobKey # None THEN {dh.args.BobKey[1]} ELSE getPrivateKey(ec)) :
          \E pubA \in {getPublicKey(ec, dh.G, kA)}, pubB \in {getPublicKey(ec, dh.G, kB)} :
          \E KA \in {ECDoubleAndAdd(ec, pubB, kA)}, KB \in {ECDoubleAndAdd(ec, pubA, kB)} :
              /\ dh' = [dh EXCEPT !.privateKeyAlice = kA, !.privateKeyBob = kB,
                                  !.publicKeyAlice = pubA, !.publicKeyBob = pubB,
                                  !.key = KA, !.K_Alice = KA, !.K_Bob = KB,
                                  !.SPDHEC_Key = KA.y]
              /\ call' = Returned("getPDHECSecretKey", <<>>, <<KA.y, pubA, pubB>>)
              /\ UNCHANGED <<ec, cipher>>

\* the test of find_all_private_keys comparing final_key with the x-coordinate
KeyPairMatchesOnX(self, G, publicKeyAlice, publicKeyBob, final_key, alice_priv, bob_priv) ==
    /\ isEqual(getPublicKey(self, G, alice_priv), publicKeyAlice)
    /\ isEqual(getPublicKey(self, G, bob_priv), publicKeyBob)
    /\ ECDoubleAndAdd(self, publicKeyBob, alice_priv).x = final_key
    /\ ECDoubleAndAdd(self, publicKeyAlice, bob_priv).x = final_key

KeyPairMatchesXOnly(self, G, publicKeyAlice, publicKeyBob, final_key, alice_priv, bob_priv) ==
    /\ getPublicKey(self, G, alice_priv).x = publicKeyAlice.x
    /\ getPublicKey(self, G, bob_priv).x = publicKeyBob.x
    /\ ECDoubleAndAdd(self, publicKeyBob, alice_priv).x
           = ECDoubleAndAdd(self, publicKeyAlice, bob_priv).x

\* the two nested tests of find_all_private_keys for one candidate pair
KeyPairMatches(self, G, publicKeyAlice, publicKeyBob, final_key, alice_priv, bob_priv) ==
    /\ isEqual(getPublicKey(self, G, alice_priv), publicKeyAlice)
    /\ isEqual(getPublicKey(self, G, bob_priv), publicKeyBob)
    /\ ECDoubleAndAdd(self, publicKeyBob, alice_priv).y = final_key
    /\ ECDoubleAndAdd(self, publicKeyAlice, bob_priv).y = final_key

\* for alice_priv in range(1, ecOrder): for bob_priv in range(1, ecOrder)
RECURSIVE find_all_private_keysLoop(_, _, _, _, _, _, _, _)
find_all_private_keysLoop(self, G, publicKeyAlice, publicKeyBob, final_key, alice_priv, bob_priv, results) ==
    IF alice_priv >= self.ecOrder THEN results
    ELSE IF bob_priv >= self.ecOrder
    THEN find_all_private_keysLoop(self, G, publicKeyAlice, publicKeyBob, final_key,
                                   alice_priv + 1, 1, results)
    ELSE find_all_private_keysLoop(self, G, publicKeyAlice, publicKeyBob, final_key,
             alice_priv, bob_priv + 1,
             IF KeyPairMatches(self, G, publicKeyAlice, publicKeyBob, final_key,
                               alice_priv, bob_priv)
             THEN Append(results, [AlicePrivateKey |-> alice_priv,
                                   BobPrivateKey |-> bob_priv])
             ELSE results)

\* the list find_all_private_keys returns; self is the engine, G the generator
find_all_private_keys(self, G, publicKeyAlice, publicKeyBob, final_key) ==
    find_all_private_keysLoop(self, G, publicKeyAlice, publicKeyBob, final_key, 1, 1, <<>>)

\* dh.find_all_private_keys(publicKeyAlice, publicKeyBob, key), called as the
\* main script does with the tuple getPDHECSecretKey returned
FindAllPrivateKeys ==
    /\ dh.present
    /\ call.op = "getPDHECSecretKey"
    /\ LET key == call.ret[1]
           publicKeyAlice == call.ret[2]
           publicKeyBob == call.ret[3]
       IN  call' = Returned("find_all_private_keys", <<publicKeyAlice, publicKeyBob, key>>,
                            find_all_private_keys(ec, dh.G, publicKeyAlice, publicKeyBob, key))
    /\ UNCHANGED <<ec, dh, cipher>>

NextDH ==
    \/ GetPDHECSecretKey

SpecDH == InitDH /\ [][NextDH]_vars

(***************************************************************************)
(* The main script with --checkAllPosibilites and no key on the command    *)
(* line: construction, getPDHECSecretKey, find_all_private_keys.  The      *)
(* table it reads lists curves of prime order with their number of points. *)
(***************************************************************************)
InitSearch ==
    /\ SPDHECConstructed
    /\ dh.args.AliceKey = None
    /\ dh.args.BobKey = None
    /\ IsPrimeNumber(ec.ecOrder)

\* key, publicKeyAlice, publicKeyBob = ecdh.getPDHECSecretKey(): the statement
\* of the script that follows the construction
MainGetPDHECSecretKey ==
    /\ call.op = "SPDHEC"
    /\ GetPDHECSecretKey

NextSearch ==
    \/ MainGetPDHECSecretKey
    \/ FindAllPrivateKeys

SpecSearch == InitSearch /\ [][NextSearch]_vars

(***************************************************************************)
(* Loading of the parameter files: every outcome of the construction of    *)
(* SPDHEC, followed by calls of generateRandomEC that find no usable prime *)
(* file.                                                                   *)
(***************************************************************************)
InitLoad == SPDHECFailed \/ SPDHECConstructed

NextLoad ==
    \/ GenerateRandomECNoFile
    \/ GenerateRandomECEmptyFile

SpecLoad == InitLoad /\ [][NextLoad]_vars

(***************************************************************************)
(* Pure functions, applied to inputs drawn by Init.                        *)
(***************************************************************************)
Called(op, args) == [op |-> op, args |-> args, state |-> "called", ret |-> FALSE]

PrimeArgs == 0..MaxSmallN \cup (LargeThreshold + 1)..(LargeThreshold + MaxLargeN)

PureModuli == {PrimeTable[i] : i \in 1..NumPurePrimes}
PureCoefs == (0 - MaxPureCoef)..MaxPureCoef
SqrtModuli == {p \in 3..MaxSqrtP : IsPrimeNumber(p) /\ p % 4 = 3}

\* the engines ECC(a, b, p) that came out Ready
ReadyEngines ==
    {self \in {ECCInit(a, b, p) : a \in 0..MaxPureCoef, b \in 0..MaxPureCoef, p \in PureModuli} :
        self.ecStatus}

InitPure ==
    /\ dh = NoDH
    /\ cipher = NoCipher
    /\ \/ /\ ec = ECCDefault
          /\ \/ \E n \in PrimeArgs : call = Called("isPrime", <<n>>)
             \/ \E n \in 2..MaxInverseN, a \in 0..MaxInverseN :
                    call = Called("MultiplicativeInverse", <<a, n>>)
             \/ \E p \in SqrtModuli, a \in 0..MaxSqrtP :
                    a < p /\ call = Called("ModularSquareRoot", <<a, p>>)
             \/ \E a \in PureCoefs, b \in PureCoefs, p \in PureModuli :
                    call = Called("ECOrder", <<a, b, p>>)
             \/ \E a \in 0..MaxPureCoef, b \in 0..MaxPureCoef, p \in PureModuli :
                    call = Called("ECC", <<a, b, p>>)
             \/ \E a \in (0 - MaxPowBase)..MaxPowBase, b \in 0..MaxPowExp, p \in 2..MaxPowMod :
                    call = Called("fastExponentation", <<a, b, p>>)
       \/ \E self \in ReadyEngines :
              /\ ec = self
              /\ \/ \E P \in CurvePoints(self.A, self.B, self.p), n \in 0..MaxPureScalar :
                        call = Called("ECDoubleAndAdd", <<P, n>>)
                 \/ call = Called("generateRandomECPoint", <<>>)
                 \/ \E P1 \in CurvePoints(self.A, self.B, self.p) \cup {Infinity},
                       P2 \in CurvePoints(self.A, self.B, self.p) \cup {Infinity} :
                        call = Called("ECPointAddition", <<P1, P2>>)

ApplyIsPrime ==
    /\ call.state = "called"
    /\ call.op = "isPrime"
    /\ call' = Returned("isPrime", call.args, isPrime(call.args[1]))
    /\ UNCHANGED <<ec, dh, cipher>>

ApplyMultiplicativeInverse ==
    /\ call.state = "called"
    /\ call.op = "MultiplicativeInverse"
    /\ call' = Returned("MultiplicativeInverse", call.args,
                        MultiplicativeInverse(call.args[1], call.args[2]))
    /\ UNCHANGED <<ec, dh, cipher>>

ApplyModularSquareRoot ==
    /\ call.state = "called"
    /\ call.op = "ModularSquareRoot"
    /\ call' = Returned("ModularSquareRoot", call.args,
                        ModularSquareRoot(call.args[1], call.args[2]))
    /\ UNCHANGED <<ec, dh, cipher>>

ApplyECOrder ==
    /\ call.state = "called"
    /\ call.op = "ECOrder"
    /\ call' = Returned("ECOrder", call.args,
                        ECOrder(call.args[1], call.args[2], call.args[3]))
    /\ UNCHANGED <<ec, dh, cipher>>

\* ec = ECC(a, b, safePrime)
ApplyECC ==
    /\ call.state = "called"
    /\ call.op = "ECC"
    /\ \E self \in {ECCInit(call.args[1], call.args[2], call.args[3])} :
           /\ ec' = self
           /\ call' = Returned("ECC", call.args, ECCInitOutcome(self))
    /\ UNCHANGED <<dh, cipher>>

\* ec.ECDoubleAndAdd(P, n)
ApplyECDoubleAndAdd ==
    /\ call.state = "called"
    /\ call.op = "ECDoubleAndAdd"
    /\ call' = Returned("ECDoubleAndAdd", call.args,
                        ECDoubleAndAdd(ec, call.args[1], call.args[2]))
    /\ UNCHANGED <<ec, dh, cipher>>

\* ec.generateRandomECPoint()
ApplyGenerateRandomECPoint ==
    /\ call.state = "called"
    /\ call.op = "generateRandomECPoint"
    /\ \E r \in generateRandomECPoint(ec) :
           call' = Returned("generateRandomECPoint", call.args, r)
    /\ UNCHANGED <<ec, dh, cipher>>

\* ec.ECPointAddition(P1, P2)
ApplyECPointAddition ==
    /\ call.state = "called"
    /\ call.op = "ECPointAddition"
    /\ call' = Returned("ECPointAddition", call.args,
                        ECPointAddition(ec, call.args[1], call.args[2]))
    /\ UNCHANGED <<ec, dh, cipher>>

ApplyFastExponentation ==
    /\ call.state = "called"
    /\ call.op = "fastExponentation"
    /\ call' = Returned("fastExponentation", call.args,
                        fastExponentation(call.args[1], call.args[2], call.args[3]))
    /\ UNCHANGED <<ec, dh, cipher>>

NextPure ==
    \/ ApplyECDoubleAndAdd
    \/ ApplyECPointAddition
    \/ ApplyGenerateRandomECPoint
    \/ ApplyFastExponentation
    \/ ApplyIsPrime
    \/ ApplyMultiplicativeInverse
    \/ ApplyModularSquareRoot
    \/ ApplyECOrder
    \/ ApplyECC

SpecPure == InitPure /\ [][NextPure]_vars

(***************************************************************************)
(* generateRandomECPoint one draw at a time: each pass of its loop draws x *)
(* and either returns a point or starts over.  call.args holds the last x  *)
(* drawn.                                                                  *)
(***************************************************************************)
\* the values generateRandomECPoint can return in the pass that drew x; empty
\* when that pass starts the loop over
generateRandomECPointDraw(self, x) ==
    LET w == CurveRHS(self.A, self.B, self.p, x)
    IN  IF w = 0 THEN {ECPoint(x, 0)}
        ELSE IF isQuadraticResidue(w, self.p)
        THEN LET sqrt == ModularSquareRoot(w, self.p)
             IN  {ECPoint(x, sqrt), ECPoint(x, (0 - 1) * sqrt + self.p)}
        ELSE {}

InitSample ==
    /\ dh = NoDH
    /\ cipher = NoCipher
    /\ ec \in ReadyEngines
    /\ call = Called("generateRandomECPoint", <<>>)

\* a pass whose x gives neither w = 0 nor a residue
SampleRejected ==
    /\ call.state = "called"
    /\ \E x \in 0..(ec.p - 1) :
           /\ generateRandomECPointDraw(ec, x) = {}
           /\ call' = Called("generateRandomECPoint", <<x>>)
    /\ UNCHANGED <<ec, dh, cipher>>

\* a pass that returns
SampleAccepted ==
    /\ call.state = "called"
    /\ \E x \in 0..(ec.p - 1) :
           \E r \in generateRandomECPointDraw(ec, x) :
               call' = Returned("generateRandomECPoint", <<x>>, r)
    /\ UNCHANGED <<ec, dh, cipher>>

NextSample ==
    \/ SampleRejected
    \/ SampleAccepted

\* random.randint draws every x again and again: a pass that returns is taken
\* eventually when there is one
SpecSample == InitSample /\ [][NextSample]_vars /\ WF_vars(SampleAccepted)

(***************************************************************************)
(* The group operations on objects.  A heap is the sequence of the ECPoint *)
(* objects created so far and an object is its index in the heap; every    *)
(* operator returns the heap it leaves and the object it returns.          *)
(***************************************************************************)
MaxHeapScalar == 6

\* ECPoint(x, y): a new object
NewECPoint(heap, x, y) == [heap |-> Append(heap, ECPoint(x, y)), ref |-> Len(heap) + 1]

\* Q = P: a second name for the object P, no new object
ECPointAlias(heap, P) == [heap |-> heap, ref |-> P]

\* ECPoint(p=P): a new object with the coordinates of P
ECPointCopy(heap, P) == NewECPoint(heap, heap[P].x, heap[P].y)

ECPointAdditionObj(self, heap, P1, P2) ==
    LET new == NewECPoint(heap, 0 - 1, 0 - 1)
        P3 == new.ref
        h == new.heap
    IN  IF isAdditiveInverse(self, h[P1], h[P2]) THEN new
        ELSE IF isEqual(h[P1], h[P2]) /\ h[P1].y = 0 THEN new
        ELSE LET m == IF isEqual(h[P1], h[P2]) THEN TangentSlope(self, h[P1])
                      ELSE ChordSlope(self, h[P1], h[P2])
                 hx == [h EXCEPT ![P3].x =
                           Mod(fastExponentation(m, 2, self.p) - h[P1].x - h[P2].x, self.p)]
                 hy == [hx EXCEPT ![P3].y =
                           Mod(PyMod(m * Mod(hx[P1].x - hx[P3].x, self.p), self.p)
                               - hx[P1].y, self.p)]
             IN  [heap |-> hy, ref |-> P3]

ECPointDoublingObj(self, heap, P) ==
    LET new == NewECPoint(heap, 0 - 1, 0 - 1)
        R == new.ref
    IN  IF new.heap[P].y = 0 THEN new
        ELSE LET h == ECPointCopy(new.heap, P).heap
                 m == TangentSlope(self, h[P])
                 hx == [h EXCEPT ![R].x =
                           Mod(fastExponentation(m, 2, self.p) - PyMod(2 * h[P].x, self.p),
                               self.p)]
                 hy == [hx EXCEPT ![R].y =
                           Mod(PyMod(m * Mod(hx[P].x - hx[R].x, self.p), self.p)
                               - hx[P].y, self.p)]
             IN  [heap |-> hy, ref |-> R]

\* for i in range(1, len(x)); now is the heap and the object Q names
RECURSIVE ECDoubleAndAddObjLoop(_, _, _, _, _)
ECDoubleAndAddObjLoop(self, P, x, i, now) ==
    IF i > Len(x) THEN now
    ELSE LET D == ECPointDoublingObj(self, now.heap, now.ref)
         IN  IF x[i] = 1
             THEN ECDoubleAndAddObjLoop(self, P, x, i + 1,
                                        ECPointAdditionObj(self, D.heap, D.ref, P))
             ELSE ECDoubleAndAddObjLoop(self, P, x, i + 1, D)

ECDoubleAndAddObj(self, heap, P, n) ==
    ECDoubleAndAddObjLoop(self, P, bin(n), 2, ECPointCopy(heap, P))

\* no object is returned yet: 0 is no index of a heap
CalledOn(heap, op, args) == [op |-> op, args |-> args, state |-> "called", ret |-> 0, heap |-> heap]

ReturnedOn(op, args, result) == [op |-> op, args |-> args, state |-> "returned", ret |-> result.ref, heap |-> result.heap]

\* one or two points of a Ready engine's group, and a call on them; the two
\* operands of an addition may be one object
InitHeap ==
    /\ dh = NoDH
    /\ cipher = NoCipher
    /\ ec \in ReadyEngines
    /\ \E heap \in UNION {[1..k -> CurvePoints(ec.A, ec.B, ec.p) \cup {Infinity}] : k \in 1..2} :
           \/ \E P1 \in 1..Len(heap), P2 \in 1..Len(heap) :
                  call = CalledOn(heap, "ECPointAddition", <<P1, P2>>)
           \/ \E P \in 1..Len(heap) :
                  call = CalledOn(heap, "ECPointDoubling", <<P>>)
           \/ \E P \in 1..Len(heap), n \in 0..MaxHeapScalar :
                  call = CalledOn(heap, "ECDoubleAndAdd", <<P, n>>)

HeapECPointAddition ==
    /\ call.state = "called"
    /\ call.op = "ECPointAddition"
    /\ call' = ReturnedOn(call.op, call.args,
                          ECPointAdditionObj(ec, call.heap, call.args[1], call.args[2]))
    /\ UNCHANGED <<ec, dh, cipher>>

HeapECPointDoubling ==
    /\ call.state = "called"
    /\ call.op = "ECPointDoubling"
    /\ call' = ReturnedOn(call.op, call.args,
                          ECPointDoublingObj(ec, call.heap, call.args[1]))
    /\ UNCHANGED <<ec, dh, cipher>>

HeapECDoubleAndAdd ==
    /\ call.state = "called"
    /\ call.op = "ECDoubleAndAdd"
    /\ call' = ReturnedOn(call.op, call.args,
                          ECDoubleAndAddObj(ec, call.heap, call.args[1], call.args[2]))
    /\ UNCHANGED <<ec, dh, cipher>>

NextHeap ==
    \/ HeapECPointAddition
    \/ HeapECPointDoubling
    \/ HeapECDoubleAndAdd

SpecHeap == InitHeap /\ [][NextHeap]_vars

(***************************************************************************)
(* affineCipher: the configuration and setConfig.  A dict is a function    *)
(* from its keys.                                                          *)
(***************************************************************************)
MaxAffineCoef == 3
MaxAlphabetLen == 3

PyNone == [none |-> TRUE]

\* "abcdefghijklmnopqrstuvwxyz"
DefaultAlphabet == <<"a", "b", "c", "d", "e", "f", "g", "h", "i", "j", "k", "l", "m", "n", "o", "p", "q", "r", "s", "t", "u", "v", "w", "x", "y", "z">>

\* affineCipher()
affineCipherInit == [class |-> "affineCipher", _config |-> [alpha |-> 1, beta |-> 1, alphabet |-> DefaultAlphabet]]

\* a | b on dicts: the keys of both, the values of b where it has the key
DictMerge(a, b) == [k \in DOMAIN a \cup DOMAIN b |-> IF k \in DOMAIN b THEN b[k] ELSE a[k]]

\* math.gcd on non-negative integers
RECURSIVE gcd(_, _)
gcd(a, b) == IF b = 0 THEN a ELSE gcd(b, a % b)

\* _checkCoef without the coprimality test
_checkCoefRangesOnly(config) ==
    LET n == Len(config.alphabet)
    IN  IF config.beta < 0 \/ config.beta >= n THEN Raise("Exception")
        ELSE IF config.alpha < 0 \/ config.alpha >= n THEN Raise("Exception")
        ELSE PyNone

_checkCoef(config) ==
    LET n == Len(config.alphabet)
    IN  IF config.beta < 0 \/ config.beta >= n THEN Raise("Exception")
        ELSE IF config.alpha < 0 \/ config.alpha >= n THEN Raise("Exception")
        ELSE IF gcd(config.alpha, n) # 1 THEN Raise("Exception")
        ELSE PyNone

\* cipher.setConfig of the base class: self._config = self._config | newConf
cipher_setConfig(self, newConf) == [self EXCEPT !._config = DictMerge(self._config, newConf)]

\* affineCipher.setConfig: the object it leaves and what the call returns
affineCipher_setConfig(self, newConf) ==
    LET checked == _checkCoef(DictMerge(self._config, newConf))
    IN  IF IsExc(checked) THEN [self |-> self, ret |-> checked]
        ELSE [self |-> cipher_setConfig(self, newConf), ret |-> PyNone]

\* values offered for 'alpha' and 'beta': integers around the valid range
CoefArgs == (0 - 1)..MaxAffineCoef

\* alphabets offered: the first letters of the default one
AlphabetArgs == {SubSeq(DefaultAlphabet, 1, n) : n \in 0..MaxAlphabetLen}

\* the dicts handed to setConfig: any of the three keys, present or absent
AffineNewConfs ==
    {[k \in K |-> full[k]] :
        full \in [alpha : CoefArgs, beta : CoefArgs, alphabet : AlphabetArgs],
        K \in SUBSET {"alpha", "beta", "alphabet"}}

InitAffine ==
    /\ ec = ECCDefault
    /\ dh = NoDH
    /\ cipher = affineCipherInit
    /\ call = Returned("affineCipher", <<>>, PyNone)

\* cipher.setConfig(newConf)
AffineSetConfig ==
    /\ cipher.class = "affineCipher"
    /\ \E newConf \in AffineNewConfs :
           LET done == affineCipher_setConfig(cipher, newConf)
           IN  /\ cipher' = done.self
               /\ call' = Returned("setConfig", <<newConf>>, done.ret)
    /\ UNCHANGED <<ec, dh>>

NextAffine ==
    \/ AffineSetConfig

SpecAffine == InitAffine /\ [][NextAffine]_vars

(***************************************************************************)
(* saesCipher.  A BitArray is a sequence of bits 0/1, first bit first; a   *)
(* BitArray is false only when it is empty.  The object is its config      *)
(* dict; a method that writes config['decrypt'] returns the config it      *)
(* leaves next to its result.                                              *)
(***************************************************************************)
MaxPadBits == 6
MaxBlockLength == 4

\* BitArray(length=n): n zero bits
Zeros(n) == [i \in 1..n |-> 0]

\* BitArray(uint=value, length=length)
BitArrayUint(value, length) == [i \in 1..length |-> (value \div (2 ^ (length - i))) % 2]

\* bits.uint
RECURSIVE uint(_)
uint(bits) == IF bits = <<>> THEN 0 ELSE 2 * uint(SubSeq(bits, 1, Len(bits) - 1)) + bits[Len(bits)]

\* bits[a:b] for 0 <= a <= b
Slice(bits, a, b) == SubSeq(bits, a + 1, IF b < Len(bits) THEN b ELSE Len(bits))

\* a ^ b on BitArrays of one length
Xor(a, b) == [i \in 1..Len(a) |-> (a[i] + b[i]) % 2]

\* list(bits.cut(n)): pieces of n bits, the last one shorter when the length
\* is no multiple of n
RECURSIVE cut(_, _)
cut(bits, n) ==
    IF Len(bits) = 0 THEN <<>>
    ELSE IF Len(bits) <= n THEN <<bits>>
    ELSE <<SubSeq(bits, 1, n)>> \o cut(SubSeq(bits, n + 1, Len(bits)), n)

\* BitArray().join(blocks)
RECURSIVE join(_)
join(blocks) == IF blocks = <<>> THEN <<>> ELSE Head(blocks) \o join(Tail(blocks))

\* _addPadding that adds no block after a complete last block
_addPaddingNoNewBlock(config, binaryPlainText) ==
    IF Len(binaryPlainText) = 0 THEN <<>>
    ELSE IF config.blockLength = 0 THEN Raise("Exception")
    ELSE LET blockLength == config.blockLength
             blocks == cut(binaryPlainText, blockLength)
             lastBlock == blocks[Len(blocks)]
         IN  IF Len(lastBlock) = blockLength THEN blocks
             ELSE LET paddedLastBlock == Append(lastBlock, 1)
                      zerosToAdd == blockLength - Len(paddedLastBlock)
                  IN  [blocks EXCEPT ![Len(blocks)] =
                          IF zerosToAdd > 0 THEN paddedLastBlock \o Zeros(zerosToAdd)
                          ELSE paddedLastBlock]

\* the list of blocks _addPadding returns
_addPadding(config, binaryPlainText) ==
    IF Len(binaryPlainText) = 0 THEN <<>>
    ELSE IF config.blockLength = 0 THEN Raise("Exception")
    ELSE LET blockLength == config.blockLength
             blocks == cut(binaryPlainText, blockLength)
             lastBlock == blocks[Len(blocks)]
         IN  IF Len(lastBlock) = blockLength
             THEN Append(blocks, <<1>> \o Zeros(blockLength - 1))
             ELSE LET paddedLastBlock == Append(lastBlock, 1)
                      zerosToAdd == blockLength - Len(paddedLastBlock)
                  IN  [blocks EXCEPT ![Len(blocks)] =
                          IF zerosToAdd > 0 THEN paddedLastBlock \o Zeros(zerosToAdd)
                          ELSE paddedLastBlock]

\* while index >= 0: the index of the last 1 bit of lastBlock, -1 when the
\* loop ends with limitFound False
RECURSIVE _removePaddingScan(_, _)
_removePaddingScan(lastBlock, index) ==
    IF index < 0 THEN 0 - 1
    ELSE IF lastBlock[index + 1] = 1 THEN index
    ELSE _removePaddingScan(lastBlock, index - 1)

\* the exception _removePadding(text) ends with, "" when it returns: no
\* blockLength, pop() from an empty list, or no 1 bit in the last block
_removePaddingRaises(config, text) ==
    IF config.blockLength = 0 THEN "Exception"
    ELSE LET all == cut(text, config.blockLength)
         IN  IF all = <<>> THEN "IndexError"
             ELSE IF _removePaddingScan(all[Len(all)], Len(all[Len(all)]) - 1) < 0
             THEN "Exception"
             ELSE ""

_removePadding(config, text) ==
    IF _removePaddingRaises(config, text) # "" THEN Raise(_removePaddingRaises(config, text))
    ELSE LET all == cut(text, config.blockLength)
             lastBlock == all[Len(all)]
             blocks == SubSeq(all, 1, Len(all) - 1)
             index == _removePaddingScan(lastBlock, Len(lastBlock) - 1)
         IN  IF index # 0
             THEN join(Append(blocks, SubSeq(lastBlock, 1, index)))
             ELSE join(blocks)

\* saesCipher() followed by setConfig(newConf): 'decrypt' is dropped from
\* newConf, the rest is merged into the config
saesCipherInit(IV, N) == [decrypt |-> FALSE, mode |-> "ECB", blockLength |-> 16, IV |-> IV, N |-> N]

saesCipher_setConfig(config, newConf) ==
    IF "key" \notin DOMAIN newConf /\ "key" \notin DOMAIN config THEN Raise("ValueError")
    ELSE DictMerge(config, [k \in DOMAIN newConf \ {"decrypt"} |-> newConf[k]])

\* every bit string of 1..n bits
BitStrings(n) == UNION {[1..k -> {0, 1}] : k \in 1..n}

\* a cipher configured with a block length, and a non-empty bit string to pad
InitPadding ==
    /\ ec = ECCDefault
    /\ dh = NoDH
    /\ \E blockLength \in 1..MaxBlockLength :
           cipher = [class |-> "saesCipher",
                     config |-> saesCipher_setConfig(saesCipherInit(Zeros(16), Zeros(16)),
                                    [key |-> 0, verbose |-> FALSE, blockLength |-> blockLength])]
    /\ \E x \in BitStrings(MaxPadBits) : call = Called("_addPadding", <<x>>)

\* blocks = cipher._addPadding(x)
AddPadding ==
    /\ call.state = "called"
    /\ call.op = "_addPadding"
    /\ call' = Returned("_addPadding", call.args, _addPadding(cipher.config, call.args[1]))
    /\ UNCHANGED <<ec, dh, cipher>>

\* cipher._removePadding(BitArray().join(blocks)) on the blocks just returned;
\* the call is left in state "raised" when it ends with an exception
RemovePadding ==
    /\ call.state = "returned"
    /\ call.op = "_addPadding"
    /\ \E text \in {join(call.ret)} :
           call' = [Returned("_removePadding", <<text>>, _removePadding(cipher.config, text))
                       EXCEPT !.state = IF _removePaddingRaises(cipher.config, text) # ""
                                        THEN "raised" ELSE "returned"]
    /\ UNCHANGED <<ec, dh, cipher>>

NextPadding ==
    \/ AddPadding
    \/ RemovePadding

SpecPadding == InitPadding /\ [][NextPadding]_vars

(***************************************************************************)
(* saesCipher: the block cipher and the modes of operation.  The three     *)
(* tables the constructor reads from CSV files are those of Simplified     *)
(* AES: the S-box and its inverse, and the products of GF(16) modulo       *)
(* x^4 + x + 1.  Keys are given as int and texts as BitArray, and          *)
(* config['verbose'] is set to False before any call.                      *)
(***************************************************************************)
MaxKeyValue == 1
MaxIVValue == 1
MaxBlockValue == 1
MaxTextBits == 2

\* encryptionSbox.csv: the value at (row, col) is entry 4 * row + col + 1
encryptionSbox == <<9, 4, 10, 11, 13, 1, 8, 5, 6, 2, 0, 3, 12, 14, 15, 7>>

\* decryptionSbox.csv
decryptionSbox == <<10, 5, 9, 11, 1, 7, 8, 15, 6, 0, 2, 3, 12, 4, 13, 14>>

XorUint(a, b) == uint(Xor(BitArrayUint(a, 4), BitArrayUint(b, 4)))

\* the product by x in GF(16)
GFDouble(a) == IF 2 * a >= 16 THEN XorUint(2 * a - 16, 3) ELSE 2 * a

RECURSIVE GFMultiply(_, _)
GFMultiply(a, b) ==
    IF b = 0 THEN 0
    ELSE XorUint(IF b % 2 = 1 THEN a ELSE 0, GFMultiply(GFDouble(a), b \div 2))

\* BitwiseMultiplyTable.csv: iloc[a - 1, b - 1] is BitwiseMultiplyTable[a][b]
BitwiseMultiplyTable == [a \in 1..15 |-> [b \in 1..15 |-> GFMultiply(a, b)]]

\* the value bound by a one-element set: a local name that is computed once
Only(S) == CHOOSE x \in S : TRUE

_rota(byte) == Slice(byte, 4, Len(byte)) \o Slice(byte, 0, 4)

RECURSIVE _sub(_, _)
_sub(config, word) ==
    LET length == Len(word)
    IN  IF length = 4
        THEN LET sbox == IF config.decrypt THEN decryptionSbox ELSE encryptionSbox
                 row == uint(Slice(word, 0, 2))
                 col == uint(Slice(word, 2, 4))
             IN  BitArrayUint(sbox[4 * row + col + 1], 4)
        ELSE LET mitad == length \div 2
             IN  _sub(config, Slice(word, 0, mitad)) \o _sub(config, Slice(word, mitad, length))

\* the round keys; config['decrypt'] is False while they are computed and
\* is restored afterwards
_generateKeys(config) ==
    LET initialKey == BitArrayUint(config.key, 16)
        enc == [config EXCEPT !.decrypt = FALSE]
        w0 == Slice(initialKey, 0, 8)
        w1 == Slice(initialKey, 8, 16)
        const1 == <<1, 0, 0, 0, 0, 0, 0, 0>>
        const2 == <<0, 0, 1, 1, 0, 0, 0, 0>>
        w2 == Xor(Xor(w0, const1), _sub(enc, _rota(w1)))
        w3 == Xor(w2, w1)
        w4 == Xor(Xor(w2, const2), _sub(enc, _rota(w3)))
        w5 == Xor(w4, w3)
    IN  [key0 |-> w0 \o w1, key1 |-> w2 \o w3, key2 |-> w4 \o w5]

_addRoundKey(state, key) == Xor(state, key)

_shiftRows(state) ==
    Slice(state, 0, 4) \o Slice(state, 12, 16) \o Slice(state, 8, 12) \o Slice(state, 4, 8)

_BitwiseMultiply(a, b) ==
    IF uint(a) = 0 \/ uint(b) = 0 THEN BitArrayUint(0, 4)
    ELSE BitArrayUint(BitwiseMultiplyTable[uint(a)][uint(b)], 4)

_mixColumns(config, state) ==
    LET nibbles == cut(state, 4)
        mF == IF config.decrypt THEN <<BitArrayUint(9, 4), BitArrayUint(2, 4)>>
              ELSE <<BitArrayUint(1, 4), BitArrayUint(4, 4)>>
    IN  Xor(_BitwiseMultiply(nibbles[1], mF[1]), _BitwiseMultiply(nibbles[2], mF[2]))
        \o Xor(_BitwiseMultiply(nibbles[1], mF[2]), _BitwiseMultiply(nibbles[2], mF[1]))
        \o Xor(_BitwiseMultiply(nibbles[3], mF[1]), _BitwiseMultiply(nibbles[4], mF[2]))
        \o Xor(_BitwiseMultiply(nibbles[3], mF[2]), _BitwiseMultiply(nibbles[4], mF[1]))

\* encrypt(plaintext): one 16-bit block; leaves config['decrypt'] False
encrypt(config, plaintext) ==
    LET c == [config EXCEPT !.decrypt = FALSE]
    IN  Only({ LET step1 == _addRoundKey(plaintext, keys.key0)
                   step2 == _sub(c, step1)
                   step3 == _shiftRows(step2)
                   step4 == _mixColumns(c, step3)
                   step5 == _addRoundKey(step4, keys.key1)
                   step6 == _sub(c, step5)
                   step7 == _shiftRows(step6)
                   step8 == _addRoundKey(step7, keys.key2)
               IN  [config |-> c, ret |-> step8] : keys \in {_generateKeys(c)} })

\* decrypt(cipheredtext): one 16-bit block; leaves config['decrypt'] True
decrypt(config, cipheredtext) ==
    LET c == [config EXCEPT !.decrypt = TRUE]
    IN  Only({ LET step8 == _addRoundKey(cipheredtext, keys.key2)
                   step7 == _shiftRows(step8)
                   step6 == _sub(c, step7)
                   step5 == _addRoundKey(step6, keys.key1)
                   step4 == _mixColumns(c, step5)
                   step3 == _shiftRows(step4)
                   step2 == _sub(c, step3)
                   step1 == _addRoundKey(step2, keys.key0)
               IN  [config |-> c, ret |-> step1] : keys \in {_generateKeys(c)} })

\* for b in blocks: the branch is chosen on the config the last call left
RECURSIVE _electronicCodeBlockLoop(_, _, _, _)
_electronicCodeBlockLoop(config, blocks, i, result) ==
    IF i > Len(blocks) THEN [config |-> config, ret |-> result]
    ELSE Only({ _electronicCodeBlockLoop(done.config, blocks, i + 1, result \o done.ret) :
                    done \in {IF config.decrypt THEN decrypt(config, blocks[i])
                              ELSE encrypt(config, blocks[i])} })

_electronicCodeBlock(config, blocks) == _electronicCodeBlockLoop(config, blocks, 1, <<>>)

RECURSIVE _cipherBlockChainingEncrypt(_, _, _, _, _)
_cipherBlockChainingEncrypt(config, blocks, i, modificator, result) ==
    IF i > Len(blocks) THEN [config |-> config, ret |-> result]
    ELSE Only({ _cipherBlockChainingEncrypt(done.config, blocks, i + 1, done.ret,
                                            result \o done.ret) :
                    done \in {encrypt(config, Xor(modificator, blocks[i]))} })

RECURSIVE _cipherBlockChainingDecrypt(_, _, _, _, _)
_cipherBlockChainingDecrypt(config, blocks, i, modificator, result) ==
    IF i > Len(blocks) THEN [config |-> config, ret |-> result]
    ELSE Only({ _cipherBlockChainingDecrypt(done.config, blocks, i + 1, blocks[i],
                                            result \o Xor(done.ret, modificator)) :
                    done \in {decrypt(config, blocks[i])} })

_cipherBlockChaining(config, blocks) ==
    IF "IV" \notin DOMAIN config \/ Len(config.IV) = 0
    THEN [config |-> config, ret |-> Raise("Exception")]
    ELSE IF ~config.decrypt
    THEN _cipherBlockChainingEncrypt(config, blocks, 1, config.IV, <<>>)
    ELSE _cipherBlockChainingDecrypt(config, blocks, 1, config.IV, <<>>)

RECURSIVE _counterLoop(_, _, _, _)
_counterLoop(config, blocks, counter, result) ==
    IF counter >= Len(blocks) THEN [config |-> config, ret |-> result]
    ELSE Only({ _counterLoop(done.config, blocks, counter + 1,
                             result \o Xor(done.ret, blocks[counter + 1])) :
                    done \in {encrypt(config, BitArrayUint(counter, config.blockLength))} })

_counter(config, blocks) ==
    IF "N" \notin DOMAIN config \/ Len(config.N) = 0
    THEN [config |-> config, ret |-> Raise("Exception")]
    ELSE IF config.blockLength = 0 THEN [config |-> config, ret |-> Raise("Exception")]
    ELSE _counterLoop(config, blocks, 0, <<>>)

\* the dispatch on config['mode'].upper() shared by encryptText and
\* decryptText; other is the result of the last branch
ModeOfOperation(config, blocks, other) ==
    IF config.mode = "ECB" THEN _electronicCodeBlock(config, blocks)
    ELSE IF config.mode = "CBC" THEN _cipherBlockChaining(config, blocks)
    ELSE IF config.mode = "CTR" THEN _counter(config, blocks)
    ELSE [config |-> config, ret |-> other]

encryptText(config, plaintext) ==
    IF config.mode = "" THEN [config |-> config, ret |-> Raise("Exception")]
    ELSE ModeOfOperation(config, _addPadding(config, plaintext), plaintext)

decryptText(config, plaintext) ==
    LET c == [config EXCEPT !.decrypt = TRUE]
    IN  IF c.mode = "" \/ c.blockLength = 0 THEN [config |-> c, ret |-> Raise("Exception")]
        ELSE LET blocks == cut(plaintext, c.blockLength)
             IN  Only({ [config |-> done.config,
                         ret |-> _removePadding(done.config, done.ret)] :
                        done \in {ModeOfOperation(c, blocks, join(blocks))} })

\* 16-bit blocks and short texts handed to the cipher
SampleBlocks == {BitArrayUint(v, 16) : v \in 0..MaxBlockValue}

SampleTexts == BitStrings(MaxTextBits) \cup SampleBlocks

\* cipher = saesCipher(); cipher.setConfig({'key': .., 'verbose': False, 'mode': ..})
InitSaes ==
    /\ ec = ECCDefault
    /\ dh = NoDH
    /\ \E key \in 0..MaxKeyValue, IV \in 0..MaxIVValue, mode \in {"ECB", "CBC", "CTR"} :
           cipher = [class |-> "saesCipher",
                     config |-> saesCipher_setConfig(
                                    saesCipherInit(BitArrayUint(IV, 16), Zeros(16)),
                                    [key |-> key, verbose |-> FALSE, mode |-> mode])]
    /\ call = Returned("setConfig", <<>>, PyNone)

SaesEncrypt ==
    /\ cipher.class = "saesCipher"
    /\ \E block \in SampleBlocks :
           \E done \in {encrypt(cipher.config, block)} :
               /\ cipher' = [cipher EXCEPT !.config = done.config]
               /\ call' = Returned("encrypt", <<block>>, done.ret)
    /\ UNCHANGED <<ec, dh>>

SaesDecrypt ==
    /\ cipher.class = "saesCipher"
    /\ \E block \in SampleBlocks :
           \E done \in {decrypt(cipher.config, block)} :
               /\ cipher' = [cipher EXCEPT !.config = done.config]
               /\ call' = Returned("decrypt", <<block>>, done.ret)
    /\ UNCHANGED <<ec, dh>>

SaesEncryptText ==
    /\ cipher.class = "saesCipher"
    /\ \E text \in SampleTexts :
           \E done \in {encryptText(cipher.config, text)} :
               /\ cipher' = [cipher EXCEPT !.config = done.config]
               /\ call' = Returned("encryptText", <<text>>, done.ret)
    /\ UNCHANGED <<ec, dh>>

\* decryptText of a sample block or of the ciphertext encryptText just returned
SaesDecryptText ==
    /\ cipher.class = "saesCipher"
    /\ \E text \in SampleBlocks \cup (IF call.op = "encryptText" THEN {call.ret} ELSE {}) :
           \E done \in {decryptText(cipher.config, text)} :
               /\ cipher' = [cipher EXCEPT !.config = done.config]
               /\ call' = Returned("decryptText", <<text>>, done.ret)
    /\ UNCHANGED <<ec, dh>>

NextSaes ==
    \/ SaesEncrypt
    \/ SaesDecrypt
    \/ SaesEncryptText
    \/ SaesDecryptText

SpecSaes == InitSaes /\ [][NextSaes]_vars

(***************************************************************************)
(* Properties of the engine (specification Spec) and of isPrime            *)
(* (specification SpecPure).                                               *)
(***************************************************************************)
GroupLawOps == {"ECPointAddition", "ECPointDoubling", "ECDoubleAndAdd", "generateRandomECPoint"}

\* points of the group of the stored curve
GroupPoints(self) == CurvePoints(self.A, self.B, self.p) \cup {Infinity}

C1_Pre ==
    /\ dh.present
    /\ call.op = "getPDHECSecretKey"
    /\ ec.ecStatus
    /\ ValidatedCurve(ec)
    /\ ec.ecOrder = PointCount(ec.A, ec.B, ec.p)
    /\ AffineOnCurve(ec, dh.G)
    /\ dh.privateKeyAlice \in 1..(ec.ecOrder - 1)
    /\ dh.privateKeyBob \in 1..(ec.ecOrder - 1)

\* C1: on a Ready engine with a validated prime-order curve, an affine
\* on-curve generator and private keys in [1, order-1], Alice's and Bob's
\* shared points are equal in both coordinates, and the exported secret is the
\* y-coordinate of that point.
C1_SharedPointAgrees ==
    C1_Pre
    => /\ dh.K_Alice = dh.K_Bob
       /\ dh.SPDHEC_Key = dh.K_Alice.y
       /\ dh.SPDHEC_Key = dh.K_Bob.y

C1_Witness ==
    /\ C1_Pre
    /\ dh.privateKeyAlice >= 2
    /\ dh.privateKeyBob >= 2
    /\ dh.privateKeyAlice # dh.privateKeyBob
    /\ dh.publicKeyAlice # dh.publicKeyBob
    /\ dh.K_Alice = dh.K_Bob
    /\ AffineOnCurve(ec, dh.K_Alice)

C2_Pre ==
    /\ call.op = "ECDoubleAndAdd"
    /\ ec.ecStatus
    /\ ValidatedCurve(ec)
    /\ AffineOnCurve(ec, call.args[1])
    /\ call.args[2] = PointCount(ec.A, ec.B, ec.p)

\* C2: on a Ready engine whose curve has prime order, multiplying an affine
\* on-curve point by the order of the curve returns the point at infinity.
C2_OrderTimesPointIsInfinity == C2_Pre => call.ret = Infinity

C2_Witness == C2_Pre /\ call.args[2] >= 5 /\ call.ret = Infinity

\* C3: on a Ready engine with a validated curve, ECPointAddition(P, infinity)
\* returns P for every affine point P of the curve.
C3_AddInfinityIsIdentity ==
    ( /\ call.op = "ECPointAddition"
      /\ ec.ecStatus
      /\ ValidatedCurve(ec)
      /\ AffineOnCurve(ec, call.args[1])
      /\ call.args[2] = Infinity )
    => call.ret = call.args[1]

C4_Pre ==
    /\ call.op = "ECPointAddition"
    /\ ec.ecStatus
    /\ call.args[1] \in GroupPoints(ec)
    /\ call.args[2] = Negate(ec, call.args[1])

\* C4: on a Ready engine, ECPointAddition(P, -P) with -P = (P.x, p - P.y)
\* returns the point at infinity for every point P of the curve.
C4_AddNegationIsInfinity == C4_Pre => call.ret = Infinity

C4_Witness ==
    /\ C4_Pre
    /\ AffineOnCurve(ec, call.args[1])
    /\ call.args[1].y # 0
    /\ call.ret = Infinity

\* C5: on a Ready engine the three ways of doubling a point P of the curve
\* agree: ECPointDoubling(P), ECPointAddition(P, P) and ECDoubleAndAdd(P, 2)
\* return the same point, which is the point at infinity when P.y = 0.
C5_DoublingsAgree ==
    (ec.ecStatus /\ call.op \in GroupLawOps /\ call.op # "generateRandomECPoint"
        /\ call.args[1] \in GroupPoints(ec))
    => LET P == call.args[1]
       IN  /\ call.op = "ECPointDoubling"
                => /\ call.ret = ECPointAddition(ec, P, P)
                   /\ P.y = 0 => call.ret = Infinity
           /\ (call.op = "ECPointAddition" /\ call.args[2] = P)
                => /\ call.ret = ECDoubleAndAdd(ec, P, 2)
                   /\ P.y = 0 => call.ret = Infinity
           /\ (call.op = "ECDoubleAndAdd" /\ call.args[2] = 2)
                => /\ call.ret = ECPointDoubling(ec, P)
                   /\ P.y = 0 => call.ret = Infinity

C5_Witness ==
    /\ ec.ecStatus
    /\ ValidatedCurve(ec)
    /\ call.op = "ECPointAddition"
    /\ AffineOnCurve(ec, call.args[1])
    /\ call.args[2] = call.args[1]
    /\ call.args[1].y # 0
    /\ AffineOnCurve(ec, call.ret)
    /\ call.ret = ECPointDoubling(ec, call.args[1])

\* C6: on a Ready engine with a validated curve, ECDoubleAndAdd(P, 0) returns
\* the point at infinity for every affine point P of the curve.
C6_ZeroTimesPointIsInfinity ==
    ( /\ call.op = "ECDoubleAndAdd"
      /\ ec.ecStatus
      /\ ValidatedCurve(ec)
      /\ AffineOnCurve(ec, call.args[1])
      /\ call.args[2] = 0 )
    => call.ret = Infinity

\* C7: isPrime(n) returns True exactly when n is a prime number.
C7_IsPrimeExact ==
    (call.op = "isPrime" /\ call.state = "returned")
    => (call.ret <=> IsPrimeNumber(call.args[1]))

C8_Pre == call.op = "ECC" /\ Len(call.args) = 3

\* C8: ECC(a, b, p) with discriminant zero leaves through the singular-curve
\* return, ECC(a, b, p) with a composite number of points leaves through the
\* composite-order return, and in both cases ecStatus is False.
C8_ConstructorRejects ==
    C8_Pre
    => LET a == call.args[1]
           b == call.args[2]
           p == call.args[3]
       IN  /\ Discriminant(a, b, p) = 0
                => (call.ret = "SingularCurve" /\ ec.ecStatus = FALSE)
           /\ (Discriminant(a, b, p) # 0 /\ IsComposite(PointCount(a, b, p)))
                => (call.ret = "CompositeOrder" /\ ec.ecStatus = FALSE)

C8_Witness ==
    /\ C8_Pre
    /\ Discriminant(call.args[1], call.args[2], call.args[3]) # 0
    /\ IsComposite(PointCount(call.args[1], call.args[2], call.args[3]))
    /\ call.ret = "CompositeOrder"
    /\ ec.ecStatus = FALSE

\* C9: whenever the engine is Ready its stored parameters are valid: the
\* discriminant is non-zero, ecOrder is prime and ecOrder is the number of
\* points of the stored curve.
C9_ReadyImpliesValid ==
    ec.ecStatus
    => /\ Discriminant(ec.A, ec.B, ec.p) # 0
       /\ IsPrimeNumber(ec.ecOrder)
       /\ ec.ecOrder = PointCount(ec.A, ec.B, ec.p)

\* C10: a group-law or sampling call on an engine that is not Ready raises
\* instead of returning a point.
C10_NotReadySignals ==
    (call.op \in GroupLawOps /\ ~ec.ecStatus) => IsExc(call.ret)

(***************************************************************************)
(* Properties of the key exchange (specification SpecDH).                  *)
(***************************************************************************)
\* a key given on the command line that is not in [1, order-1]
OutOfRangeKey(arg, order) == arg # None /\ arg[1] \notin 1..(order - 1)

\* C11: when AliceKey or BobKey is supplied and lies outside [1, order-1],
\* getPDHECSecretKey derives no public key and no shared secret from it.
C11_ExternalKeyRejected ==
    ( /\ dh.present
      /\ call.op = "getPDHECSecretKey"
      /\ \/ OutOfRangeKey(dh.args.AliceKey, ec.ecOrder)
         \/ OutOfRangeKey(dh.args.BobKey, ec.ecOrder) )
    => /\ dh.publicKeyAlice = NonePoint
       /\ dh.publicKeyBob = NonePoint
       /\ dh.key = NonePoint
       /\ dh.SPDHEC_Key = 0 - 1

C12_Pre ==
    /\ dh.present
    /\ call.op = "getPDHECSecretKey"

\* C12: a private key that getPDHECSecretKey obtained from getPrivateKey
\* (no key given on the command line) lies in [1, order-1].
C12_PrivateKeyInRange ==
    C12_Pre
    => /\ dh.args.AliceKey = None => dh.privateKeyAlice \in 1..(ec.ecOrder - 1)
       /\ dh.args.BobKey = None => dh.privateKeyBob \in 1..(ec.ecOrder - 1)

C12_Witness ==
    /\ C12_Pre
    /\ dh.args.AliceKey = None
    /\ dh.args.BobKey = None
    /\ dh.privateKeyAlice = 1
    /\ dh.privateKeyBob = ec.ecOrder - 1
    /\ ec.ecOrder >= 3

\* the exchange ran on a validated prime-order curve with an affine on-curve
\* generator and both private keys in [1, order-1]
TrueKeyPair ==
    /\ dh.present
    /\ ec.ecStatus
    /\ ValidatedCurve(ec)
    /\ ec.ecOrder = PointCount(ec.A, ec.B, ec.p)
    /\ AffineOnCurve(ec, dh.G)
    /\ dh.privateKeyAlice \in 1..(ec.ecOrder - 1)
    /\ dh.privateKeyBob \in 1..(ec.ecOrder - 1)

C13_Pre ==
    /\ TrueKeyPair
    /\ call.op = "find_all_private_keys"
    /\ call.args = <<dh.publicKeyAlice, dh.publicKeyBob, dh.SPDHEC_Key>>

\* C13: on a valid prime-order curve, find_all_private_keys called with the
\* public keys a*G, b*G of a true key pair (a, b) in [1, order-1]^2 and the
\* exported secret returns a list that contains the pair (a, b).
C13_SearchIsComplete ==
    C13_Pre
    => \E i \in 1..Len(call.ret) :
           call.ret[i] = [AlicePrivateKey |-> dh.privateKeyAlice,
                          BobPrivateKey |-> dh.privateKeyBob]

C13_Witness ==
    /\ C13_Pre
    /\ dh.privateKeyAlice >= 2
    /\ dh.privateKeyBob >= 2
    /\ dh.privateKeyAlice # dh.privateKeyBob
    /\ call.ret = <<[AlicePrivateKey |-> dh.privateKeyAlice,
                     BobPrivateKey |-> dh.privateKeyBob]>>

C14_Pre ==
    /\ TrueKeyPair
    /\ call.op = "getPDHECSecretKey"

\* C14: for a private key in [1, order-1] and an affine on-curve generator of
\* a validated prime-order curve, the public key is an affine point with
\* coordinates in [0, p) that satisfies the curve equation; it is never the
\* point at infinity.
C14_PublicKeyOnCurve ==
    C14_Pre
    => /\ AffineOnCurve(ec, dh.publicKeyAlice)
       /\ AffineOnCurve(ec, dh.publicKeyBob)
       /\ dh.publicKeyAlice # Infinity
       /\ dh.publicKeyBob # Infinity

C14_Witness ==
    /\ C14_Pre
    /\ dh.privateKeyAlice = ec.ecOrder - 1
    /\ dh.privateKeyBob = 3
    /\ dh.publicKeyAlice = Negate(ec, dh.G)
    /\ AffineOnCurve(ec, dh.publicKeyBob)
    /\ dh.publicKeyBob \notin {dh.G, dh.publicKeyAlice}

\* the load of the parameter table failed: the file is unreadable, or it has
\* no complete line at the selected position
LoadFailed(file, pos) ==
    LET idx == IF pos < 0 THEN pos + Total_Elliptic_Curves ELSE pos
    IN  \/ ~file.readable
        \/ idx \notin 0..(Total_Elliptic_Curves - 1)
        \/ idx + 1 > Len(file.lines)
        \/ Len(file.lines[idx + 1]) < 4

FailedLoadCalls == {"IOError", "empty"}

Coprime(a, n) == \A d \in 2..n : ~(a % d = 0 /\ n % d = 0)

C15_Pre ==
    /\ call.op = "MultiplicativeInverse"
    /\ call.state = "returned"
    /\ call.args[2] >= 2
    /\ call.args[1] \in 1..(call.args[2] - 1)
    /\ Coprime(call.args[1], call.args[2])

\* C15: for n >= 2 and a in [1, n-1] coprime to n, MultiplicativeInverse(a, n)
\* returns r in [0, n) with (a * r) mod n = 1.
C15_InverseRoundTrip ==
    C15_Pre
    => /\ call.ret \in 0..(call.args[2] - 1)
       /\ (call.args[1] * call.ret) % call.args[2] = 1

C15_Witness ==
    /\ C15_Pre
    /\ call.args = <<5, 12>>
    /\ call.ret = 5

\* a is a square modulo p
IsSquareMod(a, p) == \E y \in 0..(p - 1) : (y * y) % p = a % p

C16_Pre ==
    /\ call.op = "ModularSquareRoot"
    /\ call.state = "returned"
    /\ IsPrimeNumber(call.args[2])
    /\ call.args[2] % 4 = 3
    /\ call.args[1] \in 0..(call.args[2] - 1)
    /\ IsSquareMod(call.args[1], call.args[2])

C19_Pre ==
    /\ call.op = "ECC"
    /\ call.state = "returned"
    /\ Len(call.args) = 3
    /\ IsPrimeNumber(call.args[3])
    /\ call.args[3] % 2 = 1
    /\ Discriminant(call.args[1], call.args[2], call.args[3]) # 0
    /\ IsPrimeNumber(PointCount(call.args[1], call.args[2], call.args[3]))

\* C19: ECC(a, b, p) for an odd prime p, a non-singular curve and a prime
\* number of points reaches Ready: ecStatus is True and A, B, p, ecOrder hold
\* the parameters and the number of points.
C19_PrimeOrderCurveIsReady ==
    C19_Pre
    => /\ call.ret = "Ready"
       /\ ec.ecStatus
       /\ ec.attrs = AllAttrs
       /\ ec.A = call.args[1]
       /\ ec.B = call.args[2]
       /\ ec.p = call.args[3]
       /\ ec.ecOrder = PointCount(call.args[1], call.args[2], call.args[3])

C20_Pre ==
    /\ call.op = "ECOrder"
    /\ call.state = "returned"
    /\ IsPrimeNumber(call.args[3])
    /\ call.args[3] % 2 = 1

\* C20: for an odd prime p and all a, b, ECOrder(a, b, p) is 1 plus the number
\* of pairs (x, y) in [0, p)^2 with y^2 = x^3 + a*x + b (mod p).
C20_OrderIsPointCount ==
    C20_Pre => call.ret = PointCount(call.args[1], call.args[2], call.args[3])

C20_Witness ==
    /\ C20_Pre
    /\ call.args[2] < 0
    /\ call.args[3] = 7
    /\ call.ret = 13
    /\ call.ret = PointCount(call.args[1], call.args[2], call.args[3])

(***************************************************************************)
(* Scalar multiplication against the group law (specification SpecPure).   *)
(***************************************************************************)
\* C18: on a prime-order curve, ECDoubleAndAdd(P, n) is P added to itself n
\* times under the group law, for every affine on-curve point P and every
\* n >= 1, multiples of the group order and larger scalars included.
C18_ScalarIsRepeatedSum ==
    ( /\ call.op = "ECDoubleAndAdd"
      /\ call.state = "returned"
      /\ ec.ecStatus
      /\ ValidatedCurve(ec)
      /\ AffineOnCurve(ec, call.args[1])
      /\ call.args[2] >= 1 )
    => call.ret = RepeatedSum(ec.A, ec.p, call.args[1], call.args[2])

(***************************************************************************)
(* Sampling of points and modular exponentiation (specification SpecPure). *)
(***************************************************************************)
\* C21: on a Ready engine over an odd prime p, generateRandomECPoint returns
\* an affine point with coordinates in [0, p) that satisfies the curve
\* equation; it never returns the point at infinity.
C21_SampledPointOnCurve ==
    ( /\ call.op = "generateRandomECPoint"
      /\ call.state = "returned"
      /\ ec.ecStatus
      /\ IsPrimeNumber(ec.p)
      /\ ec.p % 2 = 1 )
    => /\ call.ret # Infinity
       /\ AffineOnCurve(ec, call.ret)

\* a to the power b, by repeated multiplication
RECURSIVE Power(_, _)
Power(a, b) == IF b = 0 THEN 1 ELSE a * Power(a, b - 1)

C27_Pre ==
    /\ call.op = "fastExponentation"
    /\ call.state = "returned"
    /\ call.args[2] >= 0
    /\ call.args[3] >= 2

\* C27: fastExponentation(a, b, p) is a^b mod p, a value in [0, p), for every
\* integer a, every b >= 0 (b = 0 included) and every p >= 2.
C27_PowerModulo ==
    C27_Pre
    => /\ call.ret \in 0..(call.args[3] - 1)
       /\ call.ret = Power(call.args[1], call.args[2]) % call.args[3]

C27_Witness ==
    /\ C27_Pre
    /\ call.args = <<0 - 3, 7, 5>>
    /\ call.ret = 3

(***************************************************************************)
(* Termination of the sampling loop (specification SpecSample).            *)
(***************************************************************************)
\* C22: on an engine that reached Ready through the constructor,
\* generateRandomECPoint eventually returns.
C22_SamplingReturns == <>(call.state = "returned")

(***************************************************************************)
(* Closure of the group law (specification SpecPure) and the inverses it   *)
(* takes (specification Spec).                                             *)
(***************************************************************************)
C23_Pre ==
    /\ call.op = "ECPointAddition"
    /\ call.state = "returned"
    /\ ec.ecStatus
    /\ AffineOnCurve(ec, call.args[1])
    /\ AffineOnCurve(ec, call.args[2])

\* C23: for affine points P1, P2 on the curve of a Ready engine,
\* ECPointAddition(P1, P2) returns the point at infinity or an affine point
\* with coordinates in [0, p) that satisfies the curve equation.
C23_AdditionIsClosed ==
    C23_Pre => (call.ret = Infinity \/ AffineOnCurve(ec, call.ret))

C23_Witness ==
    /\ C23_Pre
    /\ ec.p = 7
    /\ call.args[1].x # call.args[2].x
    /\ AffineOnCurve(ec, call.ret)
    /\ call.ret \notin {call.args[1], call.args[2]}

\* the 'no inverse' result of MultiplicativeInverse
NoInverse == 0 - 1

\* C24: on a Ready engine, for operands that are points of the group (affine
\* on-curve points and the point at infinity), ECPointAddition and
\* ECPointDoubling never take the 'no inverse' result -1 of
\* MultiplicativeInverse into a slope.
C24_NoInverseNeverUsed ==
    /\ ( /\ call.op = "ECPointAddition"
         /\ call.state = "returned"
         /\ ec.ecStatus
         /\ call.args[1] \in GroupPoints(ec)
         /\ call.args[2] \in GroupPoints(ec) )
       => ECPointAdditionInverse(ec, call.args[1], call.args[2]) # <<NoInverse>>
    /\ ( /\ call.op = "ECPointDoubling"
         /\ call.state = "returned"
         /\ ec.ecStatus
         /\ call.args[1] \in GroupPoints(ec) )
       => ECPointDoublingInverse(ec, call.args[1]) # <<NoInverse>>

(***************************************************************************)
(* Uniqueness of the exhaustive search (specification SpecSearch).         *)
(***************************************************************************)
C26_Pre ==
    /\ TrueKeyPair
    /\ IsPrimeNumber(ec.ecOrder)
    /\ call.op = "find_all_private_keys"
    /\ call.state = "returned"
    /\ call.args = <<dh.publicKeyAlice, dh.publicKeyBob, dh.SPDHEC_Key>>

\* C26: on a valid prime-order curve with an affine generator G, when the
\* public keys and the secret come from an exchange with private keys (a, b)
\* in [1, order-1]^2, find_all_private_keys returns the one-element list
\* that holds the pair (a, b).
C26_SearchFindsOnlyTruePair ==
    C26_Pre
    => call.ret = <<[AlicePrivateKey |-> dh.privateKeyAlice,
                     BobPrivateKey |-> dh.privateKeyBob]>>

\* a search among more than one candidate with the same public x coordinate:
\* the points a*G and (order - a)*G differ only in y
C26_Witness ==
    /\ C26_Pre
    /\ Len(call.ret) = 1
    /\ dh.privateKeyAlice + dh.privateKeyBob = ec.ecOrder
    /\ getPublicKey(ec, dh.G, ec.ecOrder - dh.privateKeyAlice).x = dh.publicKeyAlice.x
    /\ getPublicKey(ec, dh.G, ec.ecOrder - dh.privateKeyAlice) # dh.publicKeyAlice

(***************************************************************************)
(* Objects and the group operations (specification SpecHeap).              *)
(***************************************************************************)
\* the operand objects of a call on the heap
Operands(c) == IF c.op = "ECPointAddition" THEN {c.args[1], c.args[2]} ELSE {c.args[1]}

\* C25: a call of ECPointAddition, ECPointDoubling or ECDoubleAndAdd leaves
\* the coordinates of every object that existed before it, its operands
\* included, and the engine's A, B, p, ecOrder and ecStatus as they were, and
\* the object it returns is none of its operands.
C25_OperationsAllocate ==
    [][(call.state = "called" /\ call'.state = "returned")
       => /\ \A P \in 1..Len(call.heap) : call'.heap[P] = call.heap[P]
          /\ ec'.A = ec.A /\ ec'.B = ec.B /\ ec'.p = ec.p
          /\ ec'.ecOrder = ec.ecOrder /\ ec'.ecStatus = ec.ecStatus
          /\ call'.ret \in 1..Len(call'.heap)
          /\ call'.ret \notin Operands(call)]_vars

\* 1 * P: the result has the coordinates of P and is another object
C25_Witness ==
    /\ call.op = "ECDoubleAndAdd"
    /\ call.state = "returned"
    /\ "heap" \in DOMAIN call
    /\ call.args[2] = 1
    /\ call.ret # call.args[1]
    /\ call.heap[call.ret] = call.heap[call.args[1]]
    /\ call.heap[call.ret] # Infinity

(***************************************************************************)
(* The stored configuration of affineCipher (specification SpecAffine).    *)
(***************************************************************************)
\* alpha and beta are residues modulo the alphabet's length and alpha is a
\* unit: no d >= 2 divides both alpha and n
ValidAffineConfig(config) ==
    LET n == Len(config.alphabet)
    IN  /\ 0 <= config.alpha /\ config.alpha < n
        /\ 0 <= config.beta /\ config.beta < n
        /\ \A d \in 2..n : ~(config.alpha % d = 0 /\ n % d = 0)

\* C30: after any sequence of affineCipher.setConfig calls the stored
\* configuration has 0 <= alpha < n, 0 <= beta < n and gcd(alpha, n) = 1 with
\* n the length of the stored alphabet, and a call whose merged configuration
\* breaks one of these raises and leaves the stored configuration as it was.
C30_ConfigStaysValid ==
    /\ [](cipher.class = "affineCipher" => ValidAffineConfig(cipher._config))
    /\ [][(call'.op = "setConfig"
           /\ ~ValidAffineConfig(DictMerge(cipher._config, call'.args[1])))
          => (IsExc(call'.ret) /\ cipher'._config = cipher._config)]_vars

\* a call rejected only for an alpha that shares a factor with n, on a
\* configuration an earlier call had changed
C30_Witness ==
    /\ call.op = "setConfig"
    /\ IsExc(call.ret)
    /\ cipher._config # affineCipherInit._config
    /\ DOMAIN call.args[1] = {"alpha"}
    /\ call.args[1].alpha = 2
    /\ cipher._config.alphabet = DefaultAlphabet

(***************************************************************************)
(* Padding of saesCipher (specification SpecPadding).                      *)
(***************************************************************************)
\* C29: for a non-empty bit string x, of a length that is or is not a
\* multiple of blockLength, every block _addPadding(x) returns has
\* blockLength bits, and _removePadding of the joined blocks returns x.
C29_PaddingRoundTrip ==
    /\ []((call.op = "_addPadding" /\ call.state = "returned")
          => \A i \in 1..Len(call.ret) : Len(call.ret[i]) = cipher.config.blockLength)
    /\ [][(call.op = "_addPadding" /\ call'.op = "_removePadding")
          => (call'.state = "returned" /\ call'.ret = call.args[1])]_vars

\* x fills its last block: a whole block of padding was added and removed
C29_Witness ==
    /\ call.op = "_removePadding"
    /\ call.state = "returned"
    /\ cipher.config.blockLength >= 2
    /\ Len(call.ret) = 2 * cipher.config.blockLength
    /\ Len(call.args[1]) = 3 * cipher.config.blockLength
    /\ call.ret[Len(call.ret)] = 0

(***************************************************************************)
(* encryptText and the calls before it (specification SpecSaes).           *)
(***************************************************************************)
\* C28: whatever calls of encrypt, decrypt, encryptText and decryptText came
\* before, encryptText in ECB or CBC mode returns what it returns on an
\* object on which nothing has run, for the same key, IV and plaintext: the
\* block encryption of every padded block.
C28_EncryptTextEncrypts ==
    (call.op = "encryptText" /\ cipher.config.mode \in {"ECB", "CBC"})
    => call.ret = encryptText([cipher.config EXCEPT !.decrypt = FALSE], call.args[1]).ret

====
